---- MODULE Spec2Model ----
(***************************************************************************)
(* Model of geotiepoints/modisinterpolator.py: the second order           *)
(* interpolation of MODIS geolocation tie points (1km -> 250m/500m and    *)
(* 5km -> 1km/500m/250m).                                                  *)
(*                                                                         *)
(* An array is modelled by its shape and by an operator giving one        *)
(* element from its indices (from 0, as in numpy).  The operations that    *)
(* only move data (slice, repeat, concatenate, reshape, hstack, tile) are  *)
(* index maps: they give, for an index of the result, the index of the    *)
(* operand the element comes from.                                         *)
(* Floating point numbers are fixed point integers (value * SCALE, so the  *)
(* resolution is 1 / SCALE); a division by zero gives the non-finite value *)
(* NaN, which every later operation propagates (numpy gives inf or nan     *)
(* there and the pipeline only adds and multiplies afterwards).            *)
(***************************************************************************)
EXTENDS Integers, Sequences, FiniteSets, TLC

\* ------------------------------------------------------------ bounds
\* Largest number of whole scans in one input.
MaxScans == 2

\* ------------------------------------------------------------ numbers
\* Fixed point: a float v is the integer v * SCALE.
SCALE == 10 ^ 4
ONE == SCALE
HALF == SCALE \div 2
\* The non-finite float (inf and nan of numpy).
NaN == 20 * SCALE * SCALE
IsFinite(a) == a # NaN

Abs(a) == IF a < 0 THEN 0 - a ELSE a
Min(a, b) == IF a < b THEN a ELSE b
Max(a, b) == IF a < b THEN b ELSE a
\* Division rounding toward zero, so that the arithmetic is odd in its operands.
TDiv(a, b) == IF (a < 0) = (b < 0) THEN Abs(a) \div Abs(b) ELSE 0 - (Abs(a) \div Abs(b))

FAdd(a, b) == IF a = NaN \/ b = NaN THEN NaN ELSE a + b
FSub(a, b) == IF a = NaN \/ b = NaN THEN NaN ELSE a - b
FMul(a, b) == IF a = NaN \/ b = NaN THEN NaN ELSE TDiv(a * b, SCALE)
\* a / b of numpy: no exception, a non-finite result when b is 0.
FDiv(a, b) == IF a = NaN \/ b = NaN \/ b = 0 THEN NaN ELSE TDiv(a * SCALE, b)
\* An integer as a float.
FInt(n) == n * SCALE
\* float * small integer and float / small integer.
FScaleBy(a, n) == IF a = NaN THEN NaN ELSE a * n
FOver(a, n) == IF a = NaN \/ n = 0 THEN NaN ELSE TDiv(a, n)

\* pi and pi / 2 in fixed point.
Pi == (31416 * SCALE) \div (10 ^ 4)
HalfPi == Pi \div 2

\* np.sin, by its Taylor polynomial up to x^9 (|x| <= pi/2).
Sin(x) ==
    LET x2 == FMul(x, x)
        t4 == ONE - TDiv(x2, 72)
        t3 == ONE - TDiv(FMul(x2, t4), 42)
        t2 == ONE - TDiv(FMul(x2, t3), 20)
        t1 == ONE - TDiv(FMul(x2, t2), 6)
    IN  IF x = NaN THEN NaN ELSE FMul(x, t1)

\* np.cos, by its Taylor polynomial up to x^10.
Cos(x) ==
    LET x2 == FMul(x, x)
        t5 == ONE - TDiv(x2, 90)
        t4 == ONE - TDiv(FMul(x2, t5), 56)
        t3 == ONE - TDiv(FMul(x2, t4), 30)
        t2 == ONE - TDiv(FMul(x2, t3), 12)
    IN  IF x = NaN THEN NaN ELSE ONE - TDiv(FMul(x2, t2), 2)

\* The largest y in lo..hi with Sin(y) <= u (Sin is increasing on 0..HalfPi).
RECURSIVE ArcSinSearch(_, _, _)
ArcSinSearch(u, lo, hi) ==
    IF hi - lo <= 1
    THEN IF Sin(hi) <= u THEN hi ELSE lo
    ELSE LET mid == (lo + hi) \div 2
         IN  IF Sin(mid) <= u THEN ArcSinSearch(u, mid, hi)
                              ELSE ArcSinSearch(u, lo, mid - 1)

\* np.arcsin: nan outside [-1, 1], odd.
ArcSin(u) ==
    IF u = NaN \/ Abs(u) > ONE THEN NaN
    ELSE IF u < 0 THEN 0 - ArcSinSearch(0 - u, 0, HalfPi)
    ELSE ArcSinSearch(u, 0, HalfPi)

\* The largest r >= 0 with r * r <= n.
RECURSIVE ISqrtSearch(_, _, _)
ISqrtSearch(n, lo, hi) ==
    IF hi - lo <= 1
    THEN IF hi * hi <= n THEN hi ELSE lo
    ELSE LET mid == (lo + hi) \div 2
         IN  IF mid * mid <= n THEN ISqrtSearch(n, mid, hi)
                               ELSE ISqrtSearch(n, lo, mid - 1)

\* np.sqrt: nan for a negative operand.
Sqrt(v) ==
    IF v = NaN \/ v < 0 THEN NaN ELSE ISqrtSearch(v * SCALE, 0, 4 * SCALE)

\* np.deg2rad of an angle given in whole degrees.
Deg2Rad(d) == TDiv(d * Pi, 180)

\* ------------------------------------------------------------ geometry
R == 6371
\* Aqua scan width (10.00017 km, in fixed point) and altitude in km.
scan_width == 100002
H == 705

compute_phi(zeta) ==
    ArcSin(IF zeta = NaN THEN NaN ELSE TDiv(R * Sin(zeta), R + H))

compute_theta(zeta, phi) == FSub(zeta, phi)

compute_zeta(phi) ==
    ArcSin(IF phi = NaN THEN NaN ELSE TDiv((R + H) * Sin(phi), R))

\* np.where(theta_a == theta_b, theta_a * 2, theta_a - theta_b)
Denominator(theta_a, theta_b) ==
    IF theta_a = theta_b THEN FScaleBy(theta_a, 2) ELSE FSub(theta_a, theta_b)

\* All angles in radians.  The result is <<c_expansion, c_alignment>>.
compute_expansion_alignment(satz_a, satz_b, satz_c, satz_d) ==
    LET zeta_a == satz_a
        zeta_b == satz_b
        phi_a == compute_phi(zeta_a)
        phi_b == compute_phi(zeta_b)
        theta_a == compute_theta(zeta_a, phi_a)
        theta_b == compute_theta(zeta_b, phi_b)
        phi == FOver(FAdd(phi_a, phi_b), 2)
        zeta == compute_zeta(phi)
        theta == compute_theta(zeta, phi)
        denominator == Denominator(theta_a, theta_b)
        c_expansion ==
            FScaleBy(FDiv(FSub(FOver(FAdd(theta_a, theta_b), 2), theta), denominator), 4)
        sin_beta_2 == TDiv(scan_width, 2 * H)
        d == FMul(FSub(TDiv((R + H) * Cos(phi), R), Cos(zeta)), sin_beta_2)
        e == FSub(Cos(zeta), Sqrt(FSub(FMul(Cos(zeta), Cos(zeta)), FMul(d, d))))
        c_alignment == FDiv(FMul(FScaleBy(e, 4), Sin(zeta)), denominator)
    IN  <<c_expansion, c_alignment>>

\* ------------------------------------------------------------ numpy indexing
\* A Python slice bound i of an axis of length n (negative counts from the end).
PyIndex(i, n) == IF i < 0 THEN Max(n + i, 0) ELSE Min(i, n)
\* The length of [lo:hi] on an axis of length n.
SliceLen(lo, hi, n) == Max(PyIndex(hi, n) - PyIndex(lo, n), 0)
\* A Python item index i of an axis of length n.
PyItem(i, n) == IF i < 0 THEN n + i ELSE i

\* ------------------------------------------------------------ interpolator
\* get_corners(arr) for arr of shape sh: the shape of arr_a .. arr_d.
get_corners_shape(sh) ==
    <<sh[1], SliceLen(0, 0 - 1, sh[2]), SliceLen(0, 0 - 1, sh[3])>>

\* get_corners on a grid that was not split into scans: the quads follow each
\* other down the whole grid, over the scan boundaries.
get_corners_unsplit(sh, q, k, i, j) ==
    LET row == k * (sh[2] - 1) + i + (IF q \in {1, 2} THEN 0 ELSE 1)
    IN  <<row \div sh[2], row % sh[2], (IF q \in {1, 4} THEN 0 ELSE 1) + j>>

\* get_corners(arr): the index in arr of element (k, i, j) of corner q, where
\* 1 is arr_a = arr[:, :-1, :-1], 2 is arr_b = arr[:, :-1, 1:],
\* 3 is arr_c = arr[:, 1:, 1:] and 4 is arr_d = arr[:, 1:, :-1].
get_corners(sh, q, k, i, j) ==
    <<k,
      (IF q \in {1, 2} THEN PyIndex(0, sh[2]) ELSE PyIndex(1, sh[2])) + i,
      (IF q \in {1, 4} THEN PyIndex(0, sh[3]) ELSE PyIndex(1, sh[3])) + j>>

\* cscan_full_width=None
None == 0

\* The exception ModisInterpolator.__init__ raises, "none" when it returns.
InitError(cres, fres, cscan_full_width) ==
    IF fres = 0 THEN "ZeroDivisionError"
    ELSE IF fres \notin {250, 500, 1000} THEN "KeyError"
    ELSE IF cres \notin {1000, 5000} THEN "AttributeError"
    ELSE "none"

\* The fields ModisInterpolator.__init__ sets when it returns (cres is 1000 or
\* 5000 then).
ModisInterpolator(cres, fres, cscan_full_width) ==
    LET cscan_len == IF cres = 1000 THEN 10 ELSE 2
        cscan_width == IF cres = 1000 THEN 1 ELSE 5
        full_width ==
            IF cres = 1000 THEN 1354
            ELSE IF cscan_full_width = None THEN 271 ELSE cscan_full_width
        f_factor == IF fres = 250 THEN 4 ELSE IF fres = 500 THEN 2 ELSE 1
    IN  [cscan_len |-> cscan_len,
         cscan_width |-> cscan_width,
         cscan_full_width |-> full_width,
         cres |-> cres,
         res_factor |-> cres \div fres,
         fscan_width |-> f_factor * cscan_width,
         fscan_full_width |-> 1354 * f_factor,
         fscan_len |-> (f_factor * 10) \div cscan_len]

\* _get_coords_1km: the length of y.
get_coords_1km_ylen(cscan_len, cscan_full_width, fscan_len, fscan_width, fscan_full_width, scans) ==
    SliceLen(fscan_len \div 2, 0 - (fscan_len \div 2), (cscan_len + 1) * fscan_len) * scans

\* _get_coords_1km: y[r], a float.
get_coords_1km_y(cscan_len, cscan_full_width, fscan_len, fscan_width, fscan_full_width, scans, r) ==
    LET half == fscan_len \div 2
        \* y = (np.arange((cscan_len + 1) * fscan_len) % fscan_len) + .5
        n0 == (cscan_len + 1) * fscan_len
        y0(i) == FInt(i % fscan_len) + HALF
        \* y = y[fscan_len // 2:-(fscan_len // 2)]
        n1 == SliceLen(half, 0 - half, n0)
        y1(i) == y0(PyIndex(half, n0) + i)
        \* y[:fscan_len//2] = np.arange(-fscan_len/2 + .5, 0)
        y2(i) == IF i < PyIndex(half, n1)
                 THEN (HALF - TDiv(FInt(fscan_len), 2)) + FInt(i)
                 ELSE y1(i)
        \* y[-(fscan_len//2):] = np.arange(fscan_len + .5, fscan_len * 3 / 2)
        y3(i) == IF i >= PyIndex(0 - half, n1)
                 THEN (FInt(fscan_len) + HALF) + FInt(i - PyIndex(0 - half, n1))
                 ELSE y2(i)
        \* y = np.tile(y, scans)
    IN  y3(r % n1)

\* _get_coords_1km: the length of x.
get_coords_1km_xlen(cscan_len, cscan_full_width, fscan_len, fscan_width, fscan_full_width, scans) ==
    fscan_full_width

\* _get_coords_1km: x[c], an integer.
get_coords_1km_x(cscan_len, cscan_full_width, fscan_len, fscan_width, fscan_full_width, scans, c) ==
    LET \* x = np.arange(fscan_full_width) % fscan_width
        x0(i) == i % fscan_width
        \* x[-fscan_width:] = np.arange(fscan_width, fscan_width * 2)
        lo == PyIndex(0 - fscan_width, fscan_full_width)
    IN  IF c >= lo THEN fscan_width + (c - lo) ELSE x0(c)

\* _get_coords_5km without its final else: every other width is handled as 270.
CoordsError_no_else(cres, cscan_full_width) == "none"

\* The exception _get_coords_5km raises, "none" when it returns.
CoordsError(cres, cscan_full_width) ==
    IF cres # 1000 /\ cscan_full_width \notin {270, 271} THEN "NotImplementedError" ELSE "none"

\* _get_coords_5km: the length of y.
get_coords_5km_ylen(cscan_len, cscan_full_width, fscan_len, fscan_width, fscan_full_width, scans) ==
    fscan_len * cscan_len * scans

\* _get_coords_5km without the offset of two rows: y = np.arange(fscan_len * cscan_len).
get_coords_5km_y_no_offset(cscan_len, cscan_full_width, fscan_len, fscan_width, fscan_full_width, scans, r) ==
    r % (fscan_len * cscan_len)

\* _get_coords_5km: y[r], an integer.
get_coords_5km_y(cscan_len, cscan_full_width, fscan_len, fscan_width, fscan_full_width, scans, r) ==
    LET \* y = np.arange(fscan_len * cscan_len) - 2
        y0(i) == i - 2
        \* y = np.tile(y, scans)
    IN  y0(r % (fscan_len * cscan_len))

\* _get_coords_5km: the length of x.
get_coords_5km_xlen(cscan_len, cscan_full_width, fscan_len, fscan_width, fscan_full_width, scans) ==
    fscan_full_width

\* _get_coords_5km without the overrides of the last columns.
get_coords_5km_x_no_right_edge(cscan_len, cscan_full_width, fscan_len, fscan_width, fscan_full_width, scans, c) ==
    IF c = 0 THEN 0 - 2 ELSE IF c = 1 THEN 0 - 1 ELSE (c - 2) % fscan_width

\* _get_coords_5km: x[c], an integer (for the widths it does not raise for).
get_coords_5km_x(cscan_len, cscan_full_width, fscan_len, fscan_width, fscan_full_width, scans, c) ==
    LET n == fscan_full_width
        \* x = (np.arange(fscan_full_width) - 2) % fscan_width
        x0 == (c - 2) % fscan_width
        \* x[0] = -2; x[1] = -1
        x1 == IF c = PyItem(0, n) THEN 0 - 2 ELSE IF c = PyItem(1, n) THEN 0 - 1 ELSE x0
        \* x[-2] = 5; x[-1] = 6
        x271 == IF c = PyItem(0 - 2, n) THEN 5 ELSE IF c = PyItem(0 - 1, n) THEN 6 ELSE x1
        \* x[-7] = 5; ... ; x[-1] = 11
        x270 == IF c = PyItem(0 - 7, n) THEN 5
                ELSE IF c = PyItem(0 - 6, n) THEN 6
                ELSE IF c = PyItem(0 - 5, n) THEN 7
                ELSE IF c = PyItem(0 - 4, n) THEN 8
                ELSE IF c = PyItem(0 - 3, n) THEN 9
                ELSE IF c = PyItem(0 - 2, n) THEN 10
                ELSE IF c = PyItem(0 - 1, n) THEN 11
                ELSE x1
    IN  IF cscan_full_width = 271 THEN x271 ELSE x270

\* _expand_tiepoint_array_1km: the shapes of arr after each statement, for arr
\* of shape sh.
expand_tiepoint_array_1km_shapes(cscan_width, cscan_full_width, fscan_width, sh, lines, cols) ==
    LET \* arr = np.repeat(arr, lines, axis=1)
        s1 == <<sh[1], sh[2] * lines, sh[3]>>
        \* np.concatenate((arr[:, :lines//2, :], arr, arr[:, -(lines//2):, :]), axis=1)
        top == SliceLen(0, lines \div 2, s1[2])
        bottom == SliceLen(0 - (lines \div 2), s1[2], s1[2])
        s2 == <<s1[1], top + s1[2] + bottom, s1[3]>>
        \* np.repeat(arr.reshape((-1, cscan_full_width - 1)), cols, axis=1)
        s3 == <<(s2[1] * s2[2] * s2[3]) \div (cscan_full_width - 1), cscan_full_width - 1>>
        s4 == <<s3[1], s3[2] * cols>>
        \* np.hstack((arr, arr[:, -cols:]))
        s5 == <<s4[1], s4[2] + SliceLen(0 - cols, s4[2], s4[2])>>
    IN  [s1 |-> s1, top |-> top, s2 |-> s2, s3 |-> s3, s4 |-> s4, s5 |-> s5]

expand_tiepoint_array_1km_shape(cscan_width, cscan_full_width, fscan_width, sh, lines, cols) ==
    expand_tiepoint_array_1km_shapes(cscan_width, cscan_full_width, fscan_width, sh, lines, cols).s5

\* _expand_tiepoint_array_1km: the index in arr of element (r, c) of the result.
expand_tiepoint_array_1km(cscan_width, cscan_full_width, fscan_width, sh, lines, cols, r, c) ==
    LET s == expand_tiepoint_array_1km_shapes(cscan_width, cscan_full_width, fscan_width,
                                              sh, lines, cols)
        \* np.hstack((arr, arr[:, -cols:]))
        c4 == IF c < s.s4[2] THEN c ELSE PyIndex(0 - cols, s.s4[2]) + (c - s.s4[2])
        \* np.repeat(..., cols, axis=1)
        c3 == c4 \div cols
        \* arr.reshape((-1, cscan_full_width - 1))
        flat == r * s.s3[2] + c3
        k == flat \div (s.s2[2] * s.s2[3])
        i2 == (flat \div s.s2[3]) % s.s2[2]
        j == flat % s.s2[3]
        \* np.concatenate((arr[:, :lines//2, :], arr, arr[:, -(lines//2):, :]), axis=1)
        i1 == IF i2 < s.top THEN i2
              ELSE IF i2 < s.top + s.s1[2] THEN i2 - s.top
              ELSE PyIndex(0 - (lines \div 2), s.s1[2]) + (i2 - s.top - s.s1[2])
        \* np.repeat(arr, lines, axis=1)
        i == i1 \div lines
    IN  <<k, i, j>>

\* _expand_tiepoint_array_5km without its branch for 270 columns: every width
\* is stacked as the 271 columns are.
expand_tiepoint_array_5km_shapes_one_branch(cscan_width, cscan_full_width, fscan_width, sh, lines, cols) ==
    LET s1 == <<sh[1], sh[2] * lines * 2, sh[3]>>
        s2 == <<(s1[1] * s1[2] * s1[3]) \div (cscan_full_width - 1), cscan_full_width - 1>>
        s3 == <<s2[1], s2[2] * cols>>
        factor == fscan_width \div cscan_width
        left == SliceLen(0, 2 * factor, s3[2])
        right == SliceLen(0 - 2 * factor, s3[2], s3[2])
        s4 == <<s3[1], left + s3[2] + right>>
    IN  [s1 |-> s1, s2 |-> s2, s3 |-> s3, left |-> left, middle |-> 0, s4 |-> s4]

\* _expand_tiepoint_array_5km: the shapes of arr after each statement.
expand_tiepoint_array_5km_shapes(cscan_width, cscan_full_width, fscan_width, sh, lines, cols) ==
    LET \* arr = np.repeat(arr, lines * 2, axis=1)
        s1 == <<sh[1], sh[2] * lines * 2, sh[3]>>
        \* np.repeat(arr.reshape((-1, cscan_full_width - 1)), cols, axis=1)
        s2 == <<(s1[1] * s1[2] * s1[3]) \div (cscan_full_width - 1), cscan_full_width - 1>>
        s3 == <<s2[1], s2[2] * cols>>
        factor == fscan_width \div cscan_width
        \* arr[:, :2 * factor], arr[:, -fscan_width:], arr[:, -2 * factor:]
        left == SliceLen(0, 2 * factor, s3[2])
        middle == IF cscan_full_width = 271 THEN 0 ELSE SliceLen(0 - fscan_width, s3[2], s3[2])
        right == SliceLen(0 - 2 * factor, s3[2], s3[2])
        s4 == <<s3[1], left + s3[2] + middle + right>>
    IN  [s1 |-> s1, s2 |-> s2, s3 |-> s3, left |-> left, middle |-> middle, s4 |-> s4]

expand_tiepoint_array_5km_shape(cscan_width, cscan_full_width, fscan_width, sh, lines, cols) ==
    expand_tiepoint_array_5km_shapes(cscan_width, cscan_full_width, fscan_width, sh, lines, cols).s4

\* _expand_tiepoint_array_5km: the index in arr of element (r, c) of the result.
expand_tiepoint_array_5km(cscan_width, cscan_full_width, fscan_width, sh, lines, cols, r, c) ==
    LET s == expand_tiepoint_array_5km_shapes(cscan_width, cscan_full_width, fscan_width,
                                              sh, lines, cols)
        factor == fscan_width \div cscan_width
        w == s.s3[2]
        \* np.hstack((arr[:, :2 * factor], arr, [arr[:, -fscan_width:],] arr[:, -2 * factor:]))
        c3 == IF c < s.left THEN PyIndex(0, w) + c
              ELSE IF c < s.left + w THEN c - s.left
              ELSE IF c < s.left + w + s.middle
                   THEN PyIndex(0 - fscan_width, w) + (c - s.left - w)
              ELSE PyIndex(0 - 2 * factor, w) + (c - s.left - w - s.middle)
        \* np.repeat(..., cols, axis=1)
        c2 == c3 \div cols
        \* arr.reshape((-1, cscan_full_width - 1))
        flat == r * s.s2[2] + c2
        k == flat \div (s.s1[2] * s.s1[3])
        i1 == (flat \div s.s1[3]) % s.s1[2]
        j == flat % s.s1[3]
        \* np.repeat(arr, lines * 2, axis=1)
        i == i1 \div (lines * 2)
    IN  <<k, i, j>>

\* ------------------------------------------------------------ inputs
\* The zenith angle grids of the inputs.
SatzPatterns == {"zero", "const", "ramp"}
\* The whole degrees these grids hold.
SatzDegrees == {0, 30} \cup {5 + 10 * n : n \in 0 .. 6}

\* satz1[r][c] of a grid of w columns: "zero" is 0 everywhere, "const" 30
\* everywhere, "ramp" is symmetric about the sub-satellite track, 5 at the
\* centre rising in steps of 10 to 65 at the swath edges.
SatzGrid(pattern, w, r, c) ==
    IF pattern = "zero" THEN 0
    ELSE IF pattern = "const" THEN 30
    ELSE 5 + 10 * ((Abs(2 * c - (w - 1)) * 13) \div (2 * w))

\* Component n (1, 2, 3) of lonlat2xyz(lon1, lat1) at [r][c]: values in
\* [-1, 1] that differ between the four corners of every quad.
DataGrid(n, r, c) ==
    (((r * (6 + n) + c * (2 + n)) % 2001) - 1000) * (SCALE \div 1000)

\* An input is [scans, satz, row0]: scans whole scans of the grids above,
\* starting at their row row0.
Satz1(g, inp, r, c) == SatzGrid(inp.satz, g.cscan_full_width, inp.row0 + r, c)
Datasets(g, inp, n, r, c) == DataGrid(n, inp.row0 + r, c)
InputShape(g, inp) == <<inp.scans * g.cscan_len, g.cscan_full_width>>

\* Scans first .. first + n - 1 of an input, as an input of its own.
Chunk(g, inp, first, n) ==
    [scans |-> n, satz |-> inp.satz, row0 |-> inp.row0 + first * g.cscan_len]

\* ------------------------------------------------------------ _interpolate
\* The arguments ModisInterpolator.interpolate passes to _interpolate are the
\* fields g of the interpolator.

\* scans = satz1.shape[0] // cscan_len
Scans(g, inp) == InputShape(g, inp)[1] \div g.cscan_len

\* The shape of arr.reshape((-1, cscan_len, cscan_full_width)) for arr of shape sh.
reshape_shape(sh, cscan_len, cscan_full_width) ==
    <<(sh[1] * sh[2]) \div (cscan_len * cscan_full_width), cscan_len, cscan_full_width>>

\* arr.reshape((-1, cscan_len, cscan_full_width)): the index in arr (of shape
\* sh) of element (k, i, j) of the result.
reshape(sh, cscan_len, cscan_full_width, k, i, j) ==
    LET flat == (k * cscan_len + i) * cscan_full_width + j
    IN  <<flat \div sh[2], flat % sh[2]>>

\* The shape of the input grids after the reshape, and of their corners.
ScanShape(g, inp) == reshape_shape(InputShape(g, inp), g.cscan_len, g.cscan_full_width)
CornerShape(g, inp) == get_corners_shape(ScanShape(g, inp))

\* The input index of element (k, i, j) of corner q of a reshaped input grid.
TiePoint(g, inp, q, k, i, j) ==
    LET at == get_corners(ScanShape(g, inp), q, k, i, j)
    IN  reshape(InputShape(g, inp), g.cscan_len, g.cscan_full_width, at[1], at[2], at[3])

\* compute_expansion_alignment on every pair of zenith angles the grids hold
\* at the A and B corners of a quad (the grids are constant along the track,
\* so the C corner has B's angle and the D corner has A's), evaluated once.
ExpansionAlignment ==
    [a \in SatzDegrees, b \in SatzDegrees |->
        compute_expansion_alignment(Deg2Rad(a), Deg2Rad(b), Deg2Rad(b), Deg2Rad(a))]

\* satz1 at the tie point of element (k, i, j) of corner q, in degrees.
SatzDegreesAt(g, inp, q, k, i, j) ==
    LET t == TiePoint(g, inp, q, k, i, j)
    IN  Satz1(g, inp, t[1], t[2])

\* <<c_exp[k][i][j], c_ali[k][i][j]>> =
\*     compute_expansion_alignment(satz_a, satz_b, satz_c, satz_d)[k][i][j]
Coefficients(g, inp, k, i, j) ==
    LET a == SatzDegreesAt(g, inp, 1, k, i, j)
        b == SatzDegreesAt(g, inp, 2, k, i, j)
        c == SatzDegreesAt(g, inp, 3, k, i, j)
        d == SatzDegreesAt(g, inp, 4, k, i, j)
    IN  IF c = b /\ d = a
        THEN ExpansionAlignment[a, b]
        ELSE compute_expansion_alignment(Deg2Rad(a), Deg2Rad(b), Deg2Rad(c), Deg2Rad(d))

\* get_coords = _get_coords_1km if cres == 1000 else _get_coords_5km
get_coords_x(g, inp, c) ==
    IF g.cres = 1000
    THEN get_coords_1km_x(g.cscan_len, g.cscan_full_width, g.fscan_len, g.fscan_width,
                          g.fscan_full_width, Scans(g, inp), c)
    ELSE get_coords_5km_x(g.cscan_len, g.cscan_full_width, g.fscan_len, g.fscan_width,
                          g.fscan_full_width, Scans(g, inp), c)

\* y[r] as a float (_get_coords_5km gives integers).
get_coords_y(g, inp, r) ==
    IF g.cres = 1000
    THEN get_coords_1km_y(g.cscan_len, g.cscan_full_width, g.fscan_len, g.fscan_width,
                          g.fscan_full_width, Scans(g, inp), r)
    ELSE FInt(get_coords_5km_y(g.cscan_len, g.cscan_full_width, g.fscan_len, g.fscan_width,
                               g.fscan_full_width, Scans(g, inp), r))

\* i_rs, i_rt = np.meshgrid(x, y): their shape <<len(y), len(x)>>.
GridShape(g, inp) ==
    IF g.cres = 1000
    THEN <<get_coords_1km_ylen(g.cscan_len, g.cscan_full_width, g.fscan_len, g.fscan_width,
                               g.fscan_full_width, Scans(g, inp)),
           get_coords_1km_xlen(g.cscan_len, g.cscan_full_width, g.fscan_len, g.fscan_width,
                               g.fscan_full_width, Scans(g, inp))>>
    ELSE <<get_coords_5km_ylen(g.cscan_len, g.cscan_full_width, g.fscan_len, g.fscan_width,
                               g.fscan_full_width, Scans(g, inp)),
           get_coords_5km_xlen(g.cscan_len, g.cscan_full_width, g.fscan_len, g.fscan_width,
                               g.fscan_full_width, Scans(g, inp))>>

p_os == 0
p_ot == 0

\* s_s = (p_os + i_rs) * 1. / fscan_width, with i_rs[r][c] = x[c]
S_s(g, inp, r, c) == FOver(FInt(p_os + get_coords_x(g, inp, c)), g.fscan_width)

\* s_t = (p_ot + i_rt) * 1. / fscan_len, with i_rt[r][c] = y[r]
S_t(g, inp, r, c) == FOver(FAdd(FInt(p_ot), get_coords_y(g, inp, r)), g.fscan_len)

\* expand_tiepoint_array(cscan_width, cscan_full_width, fscan_width, arr, lines, cols)
\* with lines = fscan_len, cols = fscan_width and arr one of the corner arrays:
\* the shape of the result and the index in arr of its element (r, c).
ExpandedShape(g, inp) ==
    IF g.cres = 1000
    THEN expand_tiepoint_array_1km_shape(g.cscan_width, g.cscan_full_width, g.fscan_width,
                                         CornerShape(g, inp), g.fscan_len, g.fscan_width)
    ELSE expand_tiepoint_array_5km_shape(g.cscan_width, g.cscan_full_width, g.fscan_width,
                                         CornerShape(g, inp), g.fscan_len, g.fscan_width)

Expanded(g, inp, r, c) ==
    IF g.cres = 1000
    THEN expand_tiepoint_array_1km(g.cscan_width, g.cscan_full_width, g.fscan_width,
                                   CornerShape(g, inp), g.fscan_len, g.fscan_width, r, c)
    ELSE expand_tiepoint_array_5km(g.cscan_width, g.cscan_full_width, g.fscan_width,
                                   CornerShape(g, inp), g.fscan_len, g.fscan_width, r, c)

\* <<c_exp_full[r][c], c_ali_full[r][c]>>
CoefficientsFull(g, inp, r, c) ==
    LET at == Expanded(g, inp, r, c)
    IN  Coefficients(g, inp, at[1], at[2], at[3])

\* a_scan = s_s + s_s * (1 - s_s) * c_exp_full + s_t * (1 - s_t) * c_ali_full
AScan(s_s, s_t, c_exp_full, c_ali_full) ==
    FAdd(FAdd(s_s, FMul(FMul(s_s, FSub(ONE, s_s)), c_exp_full)),
         FMul(FMul(s_t, FSub(ONE, s_t)), c_ali_full))

\* a_track = s_t
ATrack(s_t) == s_t

\* Two shapes broadcast when each pair of dimensions is equal or has a 1.
Broadcastable(sa, sb) ==
    /\ Len(sa) = Len(sb)
    /\ \A d \in 1 .. Len(sa) : sa[d] = sb[d] \/ sa[d] = 1 \/ sb[d] = 1

\* The shape of an elementwise operation on two broadcastable shapes.
BroadcastShape(sa, sb) == [d \in 1 .. Len(sa) |-> Max(sa[d], sb[d])]

\* a_scan[r][c]
A_scan(g, inp, r, c) ==
    LET co == CoefficientsFull(g, inp, r, c)
    IN  AScan(S_s(g, inp, r, c), S_t(g, inp, r, c), co[1], co[2])

\* data_1 = (1 - a_scan) * data_a + a_scan * data_b
\* data_2 = (1 - a_scan) * data_d + a_scan * data_c
\* data = (1 - a_track) * data_1 + a_track * data_2
Blend(a_scan, a_track, data_a, data_b, data_c, data_d) ==
    LET data_1 == FAdd(FMul(FSub(ONE, a_scan), data_a), FMul(a_scan, data_b))
        data_2 == FAdd(FMul(FSub(ONE, a_scan), data_d), FMul(a_scan, data_c))
    IN  FAdd(FMul(FSub(ONE, a_track), data_1), FMul(a_track, data_2))

\* The input index of the tie point that expanded corner q holds at (r, c).
ExpandedTiePoint(g, inp, q, r, c) ==
    LET at == Expanded(g, inp, r, c)
    IN  TiePoint(g, inp, q, at[1], at[2], at[3])

\* data_a .. data_d of component n, expanded: element (r, c) of corner q.
DataCorner(g, inp, n, q, r, c) ==
    LET t == ExpandedTiePoint(g, inp, q, r, c)
    IN  Datasets(g, inp, n, t[1], t[2])

\* res[0][r][c], res[1][r][c], res[2][r][c]: the three blended components of
\* lonlat2xyz(lon1, lat1), which share a_scan and a_track.
Res(g, inp, r, c) ==
    LET at == Expanded(g, inp, r, c)
        co == Coefficients(g, inp, at[1], at[2], at[3])
        s_t == S_t(g, inp, r, c)
        a_track == ATrack(s_t)
        a_scan == AScan(S_s(g, inp, r, c), s_t, co[1], co[2])
        ta == TiePoint(g, inp, 1, at[1], at[2], at[3])
        tb == TiePoint(g, inp, 2, at[1], at[2], at[3])
        tc == TiePoint(g, inp, 3, at[1], at[2], at[3])
        td == TiePoint(g, inp, 4, at[1], at[2], at[3])
    IN  [n \in 1 .. 3 |->
            Blend(a_scan, a_track,
                  Datasets(g, inp, n, ta[1], ta[2]), Datasets(g, inp, n, tb[1], tb[2]),
                  Datasets(g, inp, n, tc[1], tc[2]), Datasets(g, inp, n, td[1], td[2]))]

\* The blended component n at (r, c).
Interpolated(g, inp, n, r, c) == Res(g, inp, r, c)[n]

\* ------------------------------------------------------------ calls
VARIABLES
    pc,         \* where the caller is: "idle", inside a call, "returned", "raised"
    entry,      \* the public function called, "ModisInterpolator" for direct use
    args,       \* <<cres, fres, cscan_full_width>> given to ModisInterpolator
    interp,     \* the fields of the constructed interpolator, NoInterp before
    input,      \* the input grids of the call
    warned,     \* the warnings emitted during the call
    computed,   \* the array computations done during the call, with result shapes
    error,      \* the exception raised, "none" if none
    result      \* the shape of new_lons and new_lats, <<>> before the return

vars == <<pc, entry, args, interp, input, warned, computed, error, result>>

NoInterp == [cres |-> 0]
NoInput == [scans |-> 0, satz |-> "zero", row0 |-> 0]

Init ==
    /\ pc = "idle"
    /\ entry = "none"
    /\ args = <<0, 0, None>>
    /\ interp = NoInterp
    /\ input = NoInput
    /\ warned = <<>>
    /\ computed = <<>>
    /\ error = "none"
    /\ result = <<>>

\* A public function is entered with its input grids: its warning, if any, and
\* the arguments it will give to ModisInterpolator.
Enter(name, cres, fres, width, warning, scans, satz) ==
    /\ pc = "idle"
    /\ pc' = "init"
    /\ entry' = name
    /\ args' = <<cres, fres, width>>
    /\ input' = [scans |-> scans, satz |-> satz, row0 |-> 0]
    /\ warned' = IF warning THEN <<name>> ELSE <<>>
    /\ computed' = <<>>
    /\ error' = "none"
    /\ result' = <<>>
    /\ interp' = NoInterp

\* lon1.shape[1] of a 5km input: the supported 270 and 271, and 269.
Widths5km == {269, 270, 271}

modis_1km_to_250m ==
    \E scans \in 1 .. MaxScans, satz \in SatzPatterns :
        Enter("modis_1km_to_250m", 1000, 250, None, FALSE, scans, satz)

modis_1km_to_500m ==
    \E scans \in 1 .. MaxScans, satz \in SatzPatterns :
        Enter("modis_1km_to_500m", 1000, 500, None, FALSE, scans, satz)

modis_5km_to_1km ==
    \E scans \in 1 .. MaxScans, satz \in SatzPatterns, w \in Widths5km :
        Enter("modis_5km_to_1km", 5000, 1000, w, FALSE, scans, satz)

\* modis_5km_to_500m without its warnings.warn.
modis_5km_to_500m_silent ==
    \E scans \in 1 .. MaxScans, satz \in SatzPatterns, w \in Widths5km :
        Enter("modis_5km_to_500m", 5000, 500, w, FALSE, scans, satz)

modis_5km_to_500m ==
    \E scans \in 1 .. MaxScans, satz \in SatzPatterns, w \in Widths5km :
        Enter("modis_5km_to_500m", 5000, 500, w, TRUE, scans, satz)

modis_5km_to_250m ==
    \E scans \in 1 .. MaxScans, satz \in SatzPatterns, w \in Widths5km :
        Enter("modis_5km_to_250m", 5000, 250, w, TRUE, scans, satz)

\* A caller builds ModisInterpolator(cres, fres, cscan_full_width) itself and
\* calls interpolate on it.
DirectUse ==
    \E cres \in {1000, 2000, 5000}, fres \in {100, 250, 500, 1000},
       w \in {None, 269, 270}, scans \in 1 .. MaxScans, satz \in SatzPatterns :
        Enter("ModisInterpolator", cres, fres, w, FALSE, scans, satz)

\* ModisInterpolator.__init__
Construct ==
    /\ pc = "init"
    /\ LET e == InitError(args[1], args[2], args[3])
       IN  IF e # "none"
           THEN /\ pc' = "raised"
                /\ error' = e
                /\ interp' = interp
           ELSE /\ pc' = "constructed"
                /\ error' = error
                /\ interp' = ModisInterpolator(args[1], args[2], args[3])
    /\ UNCHANGED <<entry, args, input, warned, computed, result>>

Did(op, shape) == [op |-> op, shape |-> shape]

\* interpolate -> _interpolate, up to the corners of the zenith angles.
InterpolateCorners ==
    /\ pc = "constructed"
    /\ pc' = "corners"
    /\ computed' = computed \o
          <<Did("reshape", ScanShape(interp, input)),
            Did("get_corners", CornerShape(interp, input))>>
    /\ UNCHANGED <<entry, args, interp, input, warned, error, result>>

\* c_exp, c_ali = compute_expansion_alignment(...)
InterpolateCoefficients ==
    /\ pc = "corners"
    /\ pc' = "coefficients"
    /\ computed' = Append(computed,
          Did("compute_expansion_alignment", CornerShape(interp, input)))
    /\ UNCHANGED <<entry, args, interp, input, warned, error, result>>

\* x, y = get_coords(...) up to s_s and s_t.
InterpolateCoords ==
    /\ pc = "coefficients"
    /\ LET e == CoordsError(interp.cres, interp.cscan_full_width)
       IN  IF e # "none"
           THEN /\ pc' = "raised"
                /\ error' = e
                /\ computed' = computed
           ELSE /\ pc' = "coords"
                /\ error' = error
                /\ computed' = Append(computed, Did("get_coords", GridShape(interp, input)))
    /\ UNCHANGED <<entry, args, interp, input, warned, result>>

\* c_exp_full and c_ali_full
InterpolateExpand ==
    /\ pc = "coords"
    /\ pc' = "expanded"
    /\ computed' = Append(computed,
          Did("expand_tiepoint_array", ExpandedShape(interp, input)))
    /\ UNCHANGED <<entry, args, interp, input, warned, error, result>>

\* a_track and a_scan: the operands must broadcast.
InterpolateAScan ==
    /\ pc = "expanded"
    /\ IF Broadcastable(GridShape(interp, input), ExpandedShape(interp, input))
       THEN /\ pc' = "a_scan"
            /\ error' = error
            /\ computed' = Append(computed,
                  Did("a_scan", BroadcastShape(GridShape(interp, input),
                                               ExpandedShape(interp, input))))
       ELSE /\ pc' = "raised"
            /\ error' = "ValueError"
            /\ computed' = computed
    /\ UNCHANGED <<entry, args, interp, input, warned, result>>

\* The loop over the three components of lonlat2xyz(lon1, lat1).
InterpolateBlend ==
    /\ pc = "a_scan"
    /\ LET a_scan == computed[Len(computed)].shape
       IN  IF Broadcastable(a_scan, ExpandedShape(interp, input))
           THEN /\ pc' = "blended"
                /\ error' = error
                /\ computed' = Append(computed,
                      Did("blend", BroadcastShape(a_scan, ExpandedShape(interp, input))))
           ELSE /\ pc' = "raised"
                /\ error' = "ValueError"
                /\ computed' = computed
    /\ UNCHANGED <<entry, args, interp, input, warned, result>>

\* new_lons, new_lats = xyz2lonlat(*res) and the return to the caller.
InterpolateReturn ==
    /\ pc = "blended"
    /\ pc' = "returned"
    /\ result' = computed[Len(computed)].shape
    /\ UNCHANGED <<entry, args, interp, input, warned, computed, error>>

\* The call is over (nothing is kept between calls).
Finish ==
    /\ pc \in {"returned", "raised"}
    /\ pc' = "idle"
    /\ entry' = "none"
    /\ args' = <<0, 0, None>>
    /\ interp' = NoInterp
    /\ input' = NoInput
    /\ warned' = <<>>
    /\ computed' = <<>>
    /\ error' = "none"
    /\ result' = <<>>

Next ==
    \/ modis_1km_to_250m
    \/ modis_1km_to_500m
    \/ modis_5km_to_1km
    \/ modis_5km_to_500m
    \/ modis_5km_to_250m
    \/ DirectUse
    \/ Construct
    \/ InterpolateCorners
    \/ InterpolateCoefficients
    \/ InterpolateCoords
    \/ InterpolateExpand
    \/ InterpolateAScan
    \/ InterpolateBlend
    \/ InterpolateReturn
    \/ Finish

Spec == Init /\ [][Next]_vars

\* ------------------------------------------------------------ properties
\* The coarse full width a constructor call asks for.
WidthOf(a) == IF a[1] = 1000 THEN 1354 ELSE IF a[3] = None THEN 271 ELSE a[3]

\* The supported configurations: the five pairs, 5km with 270 or 271 columns.
Supported(a) ==
    \/ a[1] = 1000 /\ a[2] \in {250, 500}
    \/ a[1] = 5000 /\ a[2] \in {250, 500, 1000} /\ WidthOf(a) \in {270, 271}

\* The configurations that are to be rejected.
Rejected(a) ==
    \/ a[1] \notin {1000, 5000}
    \/ a[2] \notin {250, 500, 1000}
    \/ a[1] = 5000 /\ WidthOf(a) \notin {270, 271}

InCall == pc \notin {"idle", "init"}
PublicEntries ==
    {"modis_1km_to_250m", "modis_1km_to_500m", "modis_5km_to_1km",
     "modis_5km_to_500m", "modis_5km_to_250m"}

\* input.rows * (cres // fres) rows and 1354 * f_factor columns.
ExpectedShape ==
    <<InputShape(interp, input)[1] * (args[1] \div args[2]), 1354 * (1000 \div args[2])>>

\* C1 -- shape law: in every supported configuration and for every number of
\* whole scans, the expanded tie-point arrays and the coordinate grid both have
\* input.rows * (cres // fres) rows and 1354 * f_factor columns, so has every
\* array computed from them, the call never fails on a shape and the output
\* has that shape.
ShapeLaw ==
    (InCall /\ Supported(args)) =>
        /\ pc # "raised"
        /\ ExpandedShape(interp, input) = ExpectedShape
        /\ GridShape(interp, input) = ExpectedShape
        /\ ExpectedShape[2] = interp.fscan_full_width
        /\ \A n \in 1 .. Len(computed) :
              computed[n].op \in {"get_coords", "expand_tiepoint_array", "a_scan", "blend"}
                  => computed[n].shape = ExpectedShape
        /\ pc = "returned" => result = ExpectedShape

\* A 5km -> 500m call on several scans of 270 columns has returned.
ShapeLawWitness ==
    /\ pc = "returned"
    /\ args = <<5000, 500, 270>>
    /\ input.scans > 1
    /\ result = <<input.scans * 2 * 10, 2708>>

WarningLaw ==
    (entry \in PublicEntries) =>
        /\ (warned # <<>>) = (entry \in {"modis_5km_to_500m", "modis_5km_to_250m"})
        /\ warned \in {<<>>, <<entry>>}
        /\ (warned # <<>>) = (args[1] = 5000 /\ args[2] \in {250, 500})
        /\ pc = "init" => (computed = <<>> /\ interp = NoInterp)
        /\ Supported(args) =>
              /\ pc # "raised"
              /\ error = "none"
              /\ pc = "returned" => result = ExpectedShape

\* modis_5km_to_250m has warned and returned its result.
WarningLawWitness ==
    /\ pc = "returned"
    /\ entry = "modis_5km_to_250m"
    /\ warned = <<"modis_5km_to_250m">>
    /\ error = "none"
    /\ result = <<input.scans * 2 * 20, 5416>>

\* The fine columns and tie-point columns the pixel by pixel properties look
\* at: the EdgeCols first and last ones and every ColStride-th in between.
EdgeCols == 2
ColStride == 1500
ProbeColumns(w) ==
    {c \in 0 .. w - 1 : c < EdgeCols \/ c >= w - EdgeCols \/ c % ColStride = 0}

\* C4 -- scan independence: the four tie points blended at a fine row of scan k
\* are tie points of scan k, and the stack of scans interpolated in one call
\* gives at each fine row of scan k what scan k interpolated on its own gives
\* at that row.
ScanIndependence ==
    (pc = "returned" /\ input.scans > 1) =>
        LET per == interp.cscan_len * interp.res_factor
        IN  \A r \in 0 .. result[1] - 1 : \A c \in ProbeColumns(result[2]) :
                LET k == r \div per
                    alone == Chunk(interp, input, k, 1)
                IN  /\ \A q \in 1 .. 4 :
                          ExpandedTiePoint(interp, input, q, r, c)[1] \div interp.cscan_len = k
                    /\ Res(interp, input, r, c) = Res(interp, alone, r - k * per, c)

\* A 1km -> 250m call on several scans has returned finite values in its last scan.
ScanIndependenceWitness ==
    /\ pc = "returned"
    /\ args[1] = 1000
    /\ args[2] = 250
    /\ input.scans > 1
    /\ input.satz = "ramp"
    /\ result[1] = input.scans * 40
    /\ IsFinite(Interpolated(interp, input, 1, result[1] - 1, 0))
    /\ ExpandedTiePoint(interp, input, 3, result[1] - 1, 0)[1] = input.scans * 10 - 1

\* The states in which x, y, s_s and s_t of a supported configuration exist.
HasCoords == pc \in {"coords", "expanded", "a_scan", "blended", "returned"} /\ Supported(args)

\* The largest s_scan and s_track of each pair, times 100.
MaxScan(a) ==
    IF a[1] = 1000 /\ a[2] = 250 THEN 175
    ELSE IF a[1] = 5000 /\ a[2] = 1000 /\ WidthOf(a) = 270 THEN 220
    ELSE 150
MaxTrack(a) ==
    IF a[1] = 5000 /\ a[2] = 500 THEN 170
    ELSE IF a[1] = 5000 /\ a[2] = 250 THEN 185
    ELSE 150

\* C8 as stated -- fine coordinate range: in every supported configuration
\* s_scan and s_track lie in [-0.5, 1.5] at every fine pixel.
CoordinateRange ==
    (pc = "coords" /\ Supported(args)) =>
        /\ \A c \in 0 .. GridShape(interp, input)[2] - 1 :
              LET s_s == S_s(interp, input, 0, c)
              IN  0 - HALF <= s_s /\ s_s <= 3 * HALF
        /\ \A r \in 0 .. GridShape(interp, input)[1] - 1 :
              LET s_t == S_t(interp, input, r, 0)
              IN  0 - HALF <= s_t /\ s_t <= 3 * HALF

\* C8 as amended: s_scan and s_track are at least -0.5; s_scan is at most 1.5,
\* but up to 1.75 for 1km -> 250m and up to 2.2 for 5km -> 1km with 270
\* columns; s_track is at most 1.5, but up to 1.7 for 5km -> 500m and up to
\* 1.85 for 5km -> 250m.
CoordinateRangeByPair ==
    (pc = "coords" /\ Supported(args)) =>
        /\ \A c \in 0 .. GridShape(interp, input)[2] - 1 :
              LET s_s == S_s(interp, input, 0, c)
              IN  0 - HALF <= s_s /\ s_s * 100 <= MaxScan(args) * ONE
        /\ \A r \in 0 .. GridShape(interp, input)[1] - 1 :
              LET s_t == S_t(interp, input, r, 0)
              IN  0 - HALF <= s_t /\ s_t * 100 <= MaxTrack(args) * ONE

\* The coordinates of a 5km -> 250m call exist and reach 1.85 along the track.
CoordinateRangeByPairWitness ==
    /\ pc = "coords"
    /\ args[1] = 5000
    /\ args[2] = 250
    /\ WidthOf(args) = 270
    /\ S_t(interp, input, GridShape(interp, input)[1] - 1, 0) * 100 = 185 * ONE
    /\ S_s(interp, input, 0, 0) * 10 = 0 - ONE

\* The tie-point columns the reproduction is checked at.
TieStride == 45
ProbeTieColumns(w) ==
    {j \in 0 .. w - 1 : j < EdgeCols \/ j >= w - EdgeCols \/ j % TieStride = 0}

\* The corner of its quad a pixel with s_s and s_t in {0, 1} selects:
\* A at (0, 0), B at (1, 0), C at (1, 1), D at (0, 1).
SelectedCorner(s_s, s_t) ==
    IF s_t = 0 THEN (IF s_s = 0 THEN 1 ELSE 2) ELSE (IF s_s = 0 THEN 4 ELSE 3)

\* C10 -- tie-point reproduction for 5km -> 1km: with 270 or 271 columns, the
\* tie point (scan k, row i, column j) is at the fine pixel (10k + 5i + 2,
\* 5j + 2): s_s and s_t are 0 or 1 there, the corner they select in the quad
\* the expansion gives to the pixel is that tie point and, where the
\* coefficients are finite, a_scan is s_s and the blend gives the tie point's
\* value in each component.
TiePointReproduction ==
    (pc = "returned" /\ args[1] = 5000 /\ args[2] = 1000) =>
        \A k \in 0 .. input.scans - 1 : \A i \in 0 .. 1 :
            \A j \in ProbeTieColumns(interp.cscan_full_width) :
                LET r == 10 * k + 5 * i + 2
                    c == 5 * j + 2
                    s_s == S_s(interp, input, r, c)
                    s_t == S_t(interp, input, r, c)
                    q == SelectedCorner(s_s, s_t)
                    co == CoefficientsFull(interp, input, r, c)
                IN  /\ s_s \in {0, ONE}
                    /\ s_t \in {0, ONE}
                    /\ ExpandedTiePoint(interp, input, q, r, c) = <<2 * k + i, j>>
                    /\ (IsFinite(co[1]) /\ IsFinite(co[2])) =>
                          /\ A_scan(interp, input, r, c) = s_s
                          /\ \A n \in 1 .. 3 :
                                Interpolated(interp, input, n, r, c)
                                    = Datasets(interp, input, n, 2 * k + i, j)

\* A 5km -> 1km call with 270 columns has returned and its last tie point, on
\* the overridden right edge, has finite coefficients.
TiePointReproductionWitness ==
    /\ pc = "returned"
    /\ args = <<5000, 1000, 270>>
    /\ input.satz = "ramp"
    /\ input.scans > 1
    /\ S_s(interp, input, 10 * input.scans - 3, 1347) = ONE
    /\ S_t(interp, input, 10 * input.scans - 3, 1347) = ONE
    /\ IsFinite(CoefficientsFull(interp, input, 10 * input.scans - 3, 1347)[1])
    /\ Interpolated(interp, input, 1, 10 * input.scans - 3, 1347)
           = Datasets(interp, input, 1, 2 * input.scans - 1, 269)

\* C5 -- coefficient symmetry: once compute_expansion_alignment has run, every
\* quad whose A and B zenith angles are equal (both 0 included) has a
\* non-zero denominator and finite c_expansion and c_alignment.
CoefficientSymmetry ==
    (pc \in {"coefficients", "coords", "expanded", "a_scan", "blended", "returned"}) =>
        LET sh == CornerShape(interp, input)
        IN  \A k \in 0 .. sh[1] - 1 : \A i \in 0 .. sh[2] - 1 : \A j \in ProbeTieColumns(sh[3]) :
                LET a == SatzDegreesAt(interp, input, 1, k, i, j)
                    b == SatzDegreesAt(interp, input, 2, k, i, j)
                    theta_a == compute_theta(Deg2Rad(a), compute_phi(Deg2Rad(a)))
                    theta_b == compute_theta(Deg2Rad(b), compute_phi(Deg2Rad(b)))
                    co == Coefficients(interp, input, k, i, j)
                IN  a = b =>
                        /\ Denominator(theta_a, theta_b) # 0
                        /\ IsFinite(co[1])
                        /\ IsFinite(co[2])

\* C6 -- identity-like check: with the fine resolution equal to the coarse one
\* the interpolation succeeds and, at every fine pixel whose s_s and s_t are
\* 0 or 1, a_scan and a_track are 0 or 1 and the blend gives the value of the
\* tie point at the selected corner.
IdentityLike ==
    (InCall /\ args[1] = args[2] /\ InitError(args[1], args[2], args[3]) = "none") =>
        /\ pc # "raised"
        /\ pc = "returned" =>
              \A r \in 0 .. result[1] - 1 : \A c \in ProbeColumns(result[2]) :
                  LET s_s == S_s(interp, input, r, c)
                      s_t == S_t(interp, input, r, c)
                      q == SelectedCorner(s_s, s_t)
                  IN  (s_s \in {0, ONE} /\ s_t \in {0, ONE}) =>
                          \A n \in 1 .. 3 :
                              Interpolated(interp, input, n, r, c)
                                  = DataCorner(interp, input, n, q, r, c)

\* The fine rows of scan k.
ScanRows(g, k) == (k * g.cscan_len * g.res_factor) .. ((k + 1) * g.cscan_len * g.res_factor - 1)

\* C7 -- track mirror: with the coefficients of the quad fixed, the blend of
\* the quad with A and D and B and C swapped is at (s_s, s_t) what the blend
\* of the quad is at (s_s, 1 - s_t); and the s_t of the rows of a scan are
\* symmetric under s_t -> 1 - s_t.
TrackMirror ==
    HasCoords =>
        \A r \in ScanRows(interp, 0) :
            /\ \E m \in ScanRows(interp, 0) :
                  S_t(interp, input, m, 0) = ONE - S_t(interp, input, r, 0)
            /\ \A c \in ProbeColumns(GridShape(interp, input)[2]) :
                  LET s_s == S_s(interp, input, r, c)
                      s_t == S_t(interp, input, r, c)
                      co == CoefficientsFull(interp, input, r, c)
                      data_a == DataCorner(interp, input, 1, 1, r, c)
                      data_b == DataCorner(interp, input, 1, 2, r, c)
                      data_c == DataCorner(interp, input, 1, 3, r, c)
                      data_d == DataCorner(interp, input, 1, 4, r, c)
                  IN  Blend(AScan(s_s, s_t, co[1], co[2]), ATrack(s_t),
                            data_d, data_c, data_b, data_a)
                      = Blend(AScan(s_s, ONE - s_t, co[1], co[2]), ATrack(ONE - s_t),
                              data_a, data_b, data_c, data_d)

\* C9 -- coordinate/quad consistency: in every supported configuration, with
\* j(c) the quad column the expansion gives to fine column c and x(c) its
\* coordinate, j(c) * fscan_width + x(c) = c - k for one k and all columns;
\* with i(r) the quad row of fine row r and y(r) its coordinate,
\* i(r) * fscan_len + y(r) = r - k' for one k' and all rows of a scan.
CoordinateQuadConsistency ==
    (pc = "expanded" /\ Supported(args)) =>
        /\ \A c \in 0 .. GridShape(interp, input)[2] - 1 :
              c - Expanded(interp, input, 0, c)[3] * interp.fscan_width
                    - get_coords_x(interp, input, c)
                = 0 - get_coords_x(interp, input, 0)
        /\ \A r \in ScanRows(interp, 0) :
              FInt(r) - FInt(Expanded(interp, input, r, 0)[2] * interp.fscan_len)
                    - get_coords_y(interp, input, r)
                = 0 - get_coords_y(interp, input, 0)
====
